---- MODULE Spec2Model ----
(***************************************************************************)
(* Model of aiohttp_remotes/x_forwarded.py: the XForwardedRelaxed and      *)
(* XForwardedStrict middlewares.                                           *)
(*                                                                         *)
(* The Python semantics the code depends on are modelled explicitly:       *)
(*   - attribute lookup: a name that no class of the object defines and    *)
(*     that __init__ never sets raises AttributeError;                     *)
(*   - the number of arguments each method takes: a call with too few      *)
(*     raises TypeError;                                                   *)
(*   - calling an "async def" without awaiting it only builds a coroutine  *)
(*     object: its body does not run and nothing is raised;                *)
(*   - headers.getall(name) without a default raises KeyError when the     *)
(*     header is absent and returns a list otherwise; headers.get(name, d) *)
(*     returns the first value or d;                                       *)
(*   - a function body that falls off its end returns None;                *)
(*   - "except TooManyHeaders" catches that class only: TypeError,          *)
(*     AttributeError, KeyError and ValueError are builtin and cannot       *)
(*     derive from a class of the package.                                  *)
(*                                                                         *)
(* Where a statement raises on every input, the statements after it are    *)
(* still written out, in the ELSE branch of the test that raises, reading  *)
(* the unbound name as the like-named member of the class.                 *)
(***************************************************************************)
EXTENDS Naturals, Integers, Sequences, FiniteSets, TLC

(* ------------------------------ bounds --------------------------------- *)
MaxHeaderLines == 3
MaxProxies == 2

(* --------------------------- input universe ---------------------------- *)
X_FORWARDED_FOR == "X-Forwarded-For"
X_FORWARDED_PROTO == "X-Forwarded-Proto"
X_FORWARDED_HOST == "X-Forwarded-Host"

HeaderNames == {X_FORWARDED_FOR, X_FORWARDED_PROTO, X_FORWARDED_HOST}

\* A string is a sequence of symbols.  A symbol is one character, except
\* that the text of an IP address counts as a single symbol.
AddrLiterals == {"203.0.113.5", "198.51.100.7", "192.0.2.9",
                 "10.1.2.3", "203.0.113.99"}

XffValues ==
    { <<>>,
      <<"192.0.2.9">>,
      <<"203.0.113.5", ",", "198.51.100.7">>,
      <<"203.0.113.5", ",", " ", "198.51.100.7", ",", " ", "192.0.2.9">>,
      <<"203.0.113.5", ",", ",", "192.0.2.9">>,
      <<"x">>,
      <<"192.0.2.9", ",", "x">> }

ProtoValues == { <<"h", "t", "t", "p", "s">>, <<>> }

HostValues == { <<>>, <<"h">>, <<"h", "o", "s", "t">> }

HeaderLine ==
    [name : {X_FORWARDED_FOR}, value : XffValues]
        \cup [name : {X_FORWARDED_PROTO}, value : ProtoValues]
        \cup [name : {X_FORWARDED_HOST}, value : HostValues]

\* the header multimap of a request: its header lines in arrival order
HeaderMaps == UNION {[1..n -> HeaderLine] : n \in 0..MaxHeaderLines}

\* the peername the transport reports
Peers == { <<"10.1.2.3">>, <<"203.0.113.99">> }

Paths == {"/", "/health"}

Cidrs == {"10.0.0.0/8"}

Requests == [headers : HeaderMaps, peer : Peers, path : Paths]

(* ----------------------- Python object semantics ----------------------- *)
\* names defined by class XForwardedRelaxed
RelaxedAttrs ==
    {"raise_error", "get_forwarded_for", "get_forwarded_proto",
     "get_forwarded_host", "middleware_handler", "__call__"}

\* names defined by class XForwardedStrict, inherited, or set by __init__
StrictAttrs ==
    RelaxedAttrs \cup {"__init__", "get_remote_addr",
                       "_num_proxies", "_upstreams", "_white_paths"}

\* the methods of the builtin list
ListAttrs ==
    {"append", "clear", "copy", "count", "extend", "index", "insert",
     "pop", "remove", "reverse", "sort"}

HasAttr(attrs, name) == name \in attrs

\* number of parameters after self of each method
Params ==
    [raise_error |-> 0, get_forwarded_for |-> 1, get_forwarded_proto |-> 1,
     get_forwarded_host |-> 1, get_remote_addr |-> 1]

\* a call site passing nargs arguments after self to method name
ArityOk(name, nargs) == Params[name] = nargs

\* Python values that meet in one place: a str and an IPv4Address
PyStr(s) == [t |-> "str", v |-> s]
PyAddr(s) == [t |-> "IPv4Address", v |-> s]
PyNone == [t |-> "NoneType", v |-> <<>>]

\* str(x)
str(x) == PyStr(x.v)

\* ip_address(s) raises ValueError unless s is the text of an address
IsAddress(s) == Len(s) = 1 /\ s[1] \in AddrLiterals
ip_address(s) == PyAddr(s)

\* ip_network(i): the addresses of the universe inside the network
ip_network(cidr) ==
    IF cidr = "10.0.0.0/8" THEN {PyAddr(<<"10.1.2.3">>)} ELSE {}

(* -------------------------------- str ---------------------------------- *)
RECURSIVE split(_, _)
\* s.split(sep): the pieces of s between occurrences of sep
split(s, sep) ==
    IF \A i \in 1..Len(s) : s[i] # sep
    THEN <<s>>
    ELSE LET i == CHOOSE k \in 1..Len(s) :
                      s[k] = sep /\ \A j \in 1..(k - 1) : s[j] # sep
         IN <<SubSeq(s, 1, i - 1)>> \o split(SubSeq(s, i + 1, Len(s)), sep)

RECURSIVE lstrip(_)
lstrip(s) == IF s # <<>> /\ Head(s) = " " THEN lstrip(Tail(s)) ELSE s

RECURSIVE rstrip(_)
rstrip(s) ==
    IF s # <<>> /\ s[Len(s)] = " "
    THEN rstrip(SubSeq(s, 1, Len(s) - 1))
    ELSE s

\* s.strip()
strip(s) == rstrip(lstrip(s))

(* ------------------------------- results ------------------------------- *)
\* the result of a method call: a returned value or a raised exception.
\*   list    the returned list (get_forwarded_for, get_forwarded_proto)
\*   str     the returned string (get_forwarded_host)
\*   addr    the first component of get_remote_addr's tuple
\*   trusted the second component of get_remote_addr's tuple
NoList == <<>>
NoStr == <<>>

Return(list, s) ==
    [kind |-> "return", exc |-> "", header |-> "",
     list |-> list, str |-> s, addr |-> PyNone, trusted |-> FALSE]

ReturnAddr(addr, trusted) ==
    [kind |-> "return", exc |-> "", header |-> "",
     list |-> NoList, str |-> NoStr, addr |-> addr, trusted |-> trusted]

Raise(exc, header) ==
    [kind |-> "raise", exc |-> exc, header |-> header,
     list |-> NoList, str |-> NoStr, addr |-> PyNone, trusted |-> FALSE]

TooFewArguments == Raise("TypeError", "")
NoAttribute == Raise("AttributeError", "")

(* ------------------------------ multidict ------------------------------ *)
RECURSIVE getall(_, _)
\* headers.getall(name): the values of all lines named name, in order
getall(headers, name) ==
    IF headers = <<>> THEN <<>>
    ELSE LET h == Head(headers)
             rest == getall(Tail(headers), name)
         IN IF h.name = name THEN <<h.value>> \o rest ELSE rest

Present(headers, name) == getall(headers, name) # <<>>

(* ------------------------------- state --------------------------------- *)
VARIABLES
    num_proxies,    \* XForwardedStrict._num_proxies
    upstreams,      \* XForwardedStrict._upstreams: a set of networks
    white_paths,    \* XForwardedStrict._white_paths
    pc,             \* "idle": nothing has run yet; "done": a call has ended
    op,             \* the operation that ran
    request,        \* the request it ran on
    result,         \* the result of a direct method call
    log,            \* records passed to logger.error while handling request
    handler_calls,  \* number of times the next handler was invoked
    handed,         \* the request value the next handler was invoked with
    response        \* how the middleware wrapper ended

vars == <<num_proxies, upstreams, white_paths, pc, op, request, result,
          log, handler_calls, handed, response>>

(* ------------------------- XForwardedRelaxed --------------------------- *)
\* the body of the coroutine raise_error: what awaiting it does
raise_error == Raise("HTTPBadRequest", "")

\* self.raise_error() as both callers write it, without await: the call only
\* builds a coroutine object, the body above never runs, nothing is raised
raise_error_unawaited == Return(NoList, NoStr)

RECURSIVE strip_all(_)
\* (a.strip() for a in forwarded_for)
strip_all(pieces) ==
    IF pieces = <<>> THEN <<>>
    ELSE <<strip(Head(pieces))>> \o strip_all(Tail(pieces))

\* [ip_address(addr) for addr in (a.strip() ...) if addr]
parse_addresses(pieces) ==
    LET addrs == SelectSeq(strip_all(pieces), LAMBDA a : a # <<>>)
    IN IF \E i \in 1..Len(addrs) : ~IsAddress(addrs[i])
       THEN Raise("ValueError", "")
       ELSE Return([i \in 1..Len(addrs) |-> ip_address(addrs[i])], NoStr)

get_forwarded_for(headers) ==
    IF ~Present(headers, X_FORWARDED_FOR)
    THEN \* line 15: getall without a default
         Raise("KeyError", X_FORWARDED_FOR)
    ELSE LET forwarded_for == getall(headers, X_FORWARDED_FOR)
         IN IF Len(forwarded_for) = 0 THEN Return(<<>>, NoStr)
            ELSE IF Len(forwarded_for) > 1
            THEN Raise("TooManyHeaders", X_FORWARDED_FOR)
            ELSE IF ~HasAttr(ListAttrs, "split")
            THEN \* line 20: forwarded_for is a list, which has no split
                 NoAttribute
            ELSE parse_addresses(split(forwarded_for[1], ","))

get_forwarded_proto(headers) ==
    IF ~Present(headers, X_FORWARDED_PROTO)
    THEN \* line 30: getall without a default
         Raise("KeyError", X_FORWARDED_PROTO)
    ELSE LET forwarded_proto == getall(headers, X_FORWARDED_PROTO)
         IN IF Len(forwarded_proto) > 1
            THEN Raise("TooManyHeaders", X_FORWARDED_PROTO)
            ELSE Return(forwarded_proto, NoStr)

get_forwarded_host(headers) ==
    LET forwarded_host == IF Present(headers, X_FORWARDED_HOST)
                          THEN Head(getall(headers, X_FORWARDED_HOST))
                          ELSE <<>>
    IN \* line 37: the length of the string, not the number of lines
       IF Len(forwarded_host) > 1
       THEN Raise("TooManyHeaders", X_FORWARDED_HOST)
       ELSE Return(NoList, forwarded_host)

(* ------------------- the outcome of handling a request ----------------- *)
\* the request as it arrived: no clone, no override
NotHanded == [cloned |-> FALSE, keys |-> {}, remote |-> PyNone,
              scheme |-> NoList, host |-> NoStr]

\* request.clone(**overrides)
Clone(keys, remote, scheme, host) ==
    [cloned |-> TRUE, keys |-> keys, remote |-> remote,
     scheme |-> scheme, host |-> host]

Raised(exc, header) == [kind |-> "raise", what |-> exc, header |-> header]
Returned(what) == [kind |-> "return", what |-> what, header |-> ""]
Pending == [kind |-> "pending", what |-> "", header |-> ""]

\* an exception leaves the handler: the records logged so far are kept
Fault(lg, r) ==
    [log |-> lg, calls |-> 0, handed |-> NotHanded,
     out |-> Raised(r.exc, r.header)]

\* return await handler(request)
Handle(lg, req) ==
    [log |-> lg, calls |-> 1, handed |-> req,
     out |-> Returned("handler_result")]

\* XForwardedRelaxed.middleware_handler(request, handler)
Relaxed_middleware_handler(req) ==
    IF ~ArityOk("get_forwarded_for", 0)
    THEN \* line 44: get_forwarded_for() is called without its headers
         Fault(<<>>, TooFewArguments)
    ELSE
    LET forwarded_for == get_forwarded_for(req.headers) IN
    IF forwarded_for.kind = "raise" THEN Fault(<<>>, forwarded_for)
    ELSE IF ~ArityOk("get_forwarded_proto", 0)
    THEN Fault(<<>>, TooFewArguments)
    ELSE
    LET proto == get_forwarded_proto(req.headers) IN
    IF proto.kind = "raise" THEN Fault(<<>>, proto)
    ELSE IF ~ArityOk("get_forwarded_host", 0)
    THEN Fault(<<>>, TooFewArguments)
    ELSE
    LET host == get_forwarded_host(req.headers) IN
    IF host.kind = "raise" THEN Fault(<<>>, host)
    ELSE \* proto is a list and host a string: neither is ever None
         Handle(<<>>,
                Clone((IF forwarded_for.list # <<>> THEN {"remote"} ELSE {})
                          \cup {"scheme", "host"},
                      IF forwarded_for.list # <<>>
                      THEN str(forwarded_for.list[1]) ELSE PyNone,
                      proto.list, host.str))

TooManyHeadersMsg == "Too many headers for %(header)s"
ReverseProxyMsg == "Reverse proxy not found: %(remote_addr)s"

LogRecord(msg, header, remote_addr) ==
    [msg |-> msg, header |-> header, remote_addr |-> remote_addr]

\* the handler that __call__ returns, around the outcome r of
\* self.middleware_handler(request, handler)
Wrapper(r) ==
    IF r.out.kind = "raise" /\ r.out.what = "TooManyHeaders"
    THEN LET lg == Append(r.log,
                          LogRecord(TooManyHeadersMsg, r.out.header, PyNone))
         IN IF raise_error_unawaited.kind = "raise"
            THEN [log |-> lg, calls |-> r.calls, handed |-> r.handed,
                  out |-> Raised(raise_error_unawaited.exc, "")]
            ELSE \* the except clause ends and the wrapper returns None
                 [log |-> lg, calls |-> r.calls, handed |-> r.handed,
                  out |-> Returned("None")]
    ELSE r

(* -------------------------- XForwardedStrict --------------------------- *)
\* XForwardedStrict.get_remote_addr(request)
get_remote_addr(req) ==
    IF ~HasAttr(StrictAttrs, "_get_forwarded_for")
    THEN \* line 81: the method is named get_forwarded_for
         NoAttribute
    ELSE
    LET forwarded_for == get_forwarded_for(req.headers) IN
    IF forwarded_for.kind = "raise" THEN forwarded_for
    ELSE
    LET trusted_header == Len(forwarded_for.list) >= num_proxies
        real_remote_addr == PyStr(req.peer)
    IN IF trusted_header
       THEN IF ~HasAttr(StrictAttrs, "upstreams")
            THEN \* line 91: __init__ sets _upstreams
                 NoAttribute
            ELSE IF \E upstream \in upstreams :
                        ip_address(real_remote_addr.v) \in upstream
                 THEN IF ~HasAttr(StrictAttrs, "num_proxies")
                      THEN \* line 97: __init__ sets _num_proxies
                           NoAttribute
                      ELSE ReturnAddr(
                               forwarded_for.list[Len(forwarded_for.list)
                                                  - num_proxies + 1],
                               TRUE)
                 ELSE ReturnAddr(real_remote_addr, FALSE)
       ELSE ReturnAddr(real_remote_addr, FALSE)

\* the strict handler with its trust test lost: whatever get_remote_addr
\* would say, the peer is taken as the remote and the request is handed on
Strict_middleware_handler_ungated(req) ==
    IF req.path \in white_paths
    THEN Handle(<<>>, NotHanded)
    ELSE Handle(<<LogRecord(ReverseProxyMsg, "", PyStr(req.peer))>>,
                Clone({"remote"}, str(PyStr(req.peer)), NoList, NoStr))

\* XForwardedStrict.middleware_handler(request, handler)
Strict_middleware_handler(req) ==
    IF ~HasAttr(StrictAttrs, "white_paths")
    THEN \* line 107: __init__ sets _white_paths
         Fault(<<>>, NoAttribute)
    ELSE IF req.path \in white_paths
    THEN Handle(<<>>, NotHanded)
    ELSE IF ~HasAttr(StrictAttrs, "_get_remote_addr")
    THEN \* line 109: the method is named get_remote_addr
         Fault(<<>>, NoAttribute)
    ELSE
    LET r == get_remote_addr(req) IN
    IF r.kind = "raise" THEN Fault(<<>>, r)
    ELSE
    LET lg == IF ~r.trusted
              THEN <<LogRecord(ReverseProxyMsg, "", r.addr)>>
              ELSE <<>>
    IN IF ~r.trusted /\ raise_error_unawaited.kind = "raise"
       THEN Fault(lg, raise_error_unawaited)
       ELSE IF ~HasAttr(StrictAttrs, "_get_forwarded_proto")
       THEN \* line 119: the method is named get_forwarded_proto
            Fault(lg, NoAttribute)
       ELSE
       LET proto == get_forwarded_proto(req.headers) IN
       IF proto.kind = "raise" THEN Fault(lg, proto)
       ELSE IF ~HasAttr(StrictAttrs, "_get_forwarded_host")
       THEN \* line 123: the method is named get_forwarded_host
            Fault(lg, NoAttribute)
       ELSE
       LET host == get_forwarded_host(req.headers) IN
       IF host.kind = "raise" THEN Fault(lg, host)
       ELSE Handle(lg, Clone({"remote", "scheme", "host"},
                             str(r.addr), proto.list, host.str))

(* ----------------------------- operations ------------------------------ *)
NoRequest == [headers |-> <<>>, peer |-> <<"10.1.2.3">>, path |-> "/"]
NoResult == [kind |-> "none", exc |-> "", header |-> "",
             list |-> NoList, str |-> NoStr, addr |-> PyNone,
             trusted |-> FALSE]

\* XForwardedStrict.__init__(num_proxies, upstreams, white_paths); the relaxed
\* middleware has no configuration.  Nothing has run yet.
Init ==
    /\ num_proxies \in 1..MaxProxies
    /\ upstreams \in {{ip_network(i) : i \in c} : c \in SUBSET Cidrs}
    /\ white_paths \in SUBSET {"/health"}
    /\ pc = "idle"
    /\ op = "none"
    /\ request = NoRequest
    /\ result = NoResult
    /\ log = <<>>
    /\ handler_calls = 0
    /\ handed = NotHanded
    /\ response = Pending

Config == <<num_proxies, upstreams, white_paths>>
Handling == <<log, handler_calls, handed, response>>

\* a direct call of one of the methods
MethodCall(name, req, r) ==
    /\ pc' = "done"
    /\ op' = name
    /\ request' = req
    /\ result' = r
    /\ UNCHANGED <<Config, Handling>>

Call_get_forwarded_for ==
    /\ pc = "idle"
    /\ \E req \in Requests :
           MethodCall("get_forwarded_for", req,
                      get_forwarded_for(req.headers))

Call_get_forwarded_proto ==
    /\ pc = "idle"
    /\ \E req \in Requests :
           MethodCall("get_forwarded_proto", req,
                      get_forwarded_proto(req.headers))

Call_get_forwarded_host ==
    /\ pc = "idle"
    /\ \E req \in Requests :
           MethodCall("get_forwarded_host", req,
                      get_forwarded_host(req.headers))

Call_get_remote_addr ==
    /\ pc = "idle"
    /\ \E req \in Requests :
           MethodCall("get_remote_addr", req, get_remote_addr(req))

\* await self.raise_error()
Await_raise_error ==
    /\ pc = "idle"
    /\ MethodCall("raise_error", NoRequest, raise_error)

\* one request through the handler that __call__ returns
Serve(name, req, r) ==
    /\ pc' = "done"
    /\ op' = name
    /\ request' = req
    /\ log' = r.log
    /\ handler_calls' = r.calls
    /\ handed' = r.handed
    /\ response' = r.out
    /\ UNCHANGED <<Config, result>>

Relaxed_request ==
    /\ pc = "idle"
    /\ \E req \in Requests :
           Serve("relaxed", req, Wrapper(Relaxed_middleware_handler(req)))

Strict_request ==
    /\ pc = "idle"
    /\ \E req \in Requests :
           Serve("strict", req, Wrapper(Strict_middleware_handler(req)))

Next ==
    \/ Call_get_forwarded_for
    \/ Call_get_forwarded_proto
    \/ Call_get_forwarded_host
    \/ Call_get_remote_addr
    \/ Await_raise_error
    \/ Relaxed_request
    \/ Strict_request

Spec == Init /\ [][Next]_vars

(* ===================== what the specification says ===================== *)
Done(name) == pc = "done" /\ op = name

Lines(req, name) == getall(req.headers, name)

\* the request has a forwarded-for chain: no X-Forwarded-For line, or one
\* whose tokens are all addresses
ChainDefined(req) ==
    \/ Lines(req, X_FORWARDED_FOR) = <<>>
    \/ /\ Len(Lines(req, X_FORWARDED_FOR)) = 1
       /\ parse_addresses(split(Lines(req, X_FORWARDED_FOR)[1], ",")).kind
              = "return"

\* the chain, client-nearest entry first
Chain(req) ==
    IF Lines(req, X_FORWARDED_FOR) = <<>> THEN <<>>
    ELSE parse_addresses(split(Lines(req, X_FORWARDED_FOR)[1], ",")).list

\* exactly one X-Forwarded-For line, with a token that is not an address
BadToken(req) ==
    /\ Len(Lines(req, X_FORWARDED_FOR)) = 1
    /\ ~ChainDefined(req)

PeerTrusted(req) == \E net \in upstreams : PyAddr(req.peer) \in net

\* the condition under which strict mode is to trust the forwarded chain
ShouldTrust(req) ==
    /\ ChainDefined(req)
    /\ Len(Chain(req)) >= num_proxies
    /\ PeerTrusted(req)

Exempt(req) == req.path \in white_paths

\* the request reaches the trust-resolution of the mode that served it
Resolving ==
    \/ Done("relaxed")
    \/ Done("strict") /\ ~Exempt(request)

BadRequest == Raised("HTTPBadRequest", "")
HandlerResult == Returned("handler_result")

\* C1: in strict mode the resolver yields trusted=true exactly when the chain
\* has at least expectedProxyHops entries and the direct peer lies in a
\* trusted network; otherwise it yields trusted=false with remoteAddress
\* equal to the direct peer address.
C1_StrictTrustDecision ==
    (Done("get_remote_addr") /\ ChainDefined(request)) =>
        /\ result.kind = "return"
        /\ result.trusted <=> ShouldTrust(request)
        /\ ~result.trusted => result.addr.v = request.peer

\* C2: whenever the resolver yields trusted=true the remoteAddress is
\* chain[hopCount - expectedProxyHops], an index inside the chain, and a
\* chain longer than expectedProxyHops presented by a trusted peer is
\* accepted.
C2_StrictAddressSelection ==
    Done("get_remote_addr") =>
        /\ (result.kind = "return" /\ result.trusted) =>
               /\ Len(Chain(request)) - num_proxies + 1
                      \in 1..Len(Chain(request))
               /\ result.addr
                      = Chain(request)[Len(Chain(request)) - num_proxies + 1]
        /\ ShouldTrust(request) =>
               /\ result.kind = "return"
               /\ result.trusted
               /\ result.addr
                      = Chain(request)[Len(Chain(request)) - num_proxies + 1]

\* C3: a non-exempt request whose resolution is untrusted is logged once as
\* a trust failure and ends in HTTP 400; the next handler is never invoked.
C3_StrictFailClosed ==
    (Done("strict") /\ ~Exempt(request) /\ ChainDefined(request)
        /\ ~ShouldTrust(request)) =>
        /\ log = <<LogRecord(ReverseProxyMsg, "", PyStr(request.peer))>>
        /\ response = BadRequest
        /\ handler_calls = 0

\* C4: a request with two or more X-Forwarded-For lines fails resolution with
\* TooManyHeaders naming X-Forwarded-For; the wrapper logs it and answers
\* 400, and the next handler is never invoked.
C4_DuplicateForwardedFor ==
    /\ (Done("get_forwarded_for")
            /\ Len(Lines(request, X_FORWARDED_FOR)) >= 2) =>
           result = Raise("TooManyHeaders", X_FORWARDED_FOR)
    /\ (Resolving /\ Len(Lines(request, X_FORWARDED_FOR)) >= 2) =>
           /\ log = <<LogRecord(TooManyHeadersMsg, X_FORWARDED_FOR, PyNone)>>
           /\ response = BadRequest
           /\ handler_calls = 0

\* C5: a request on an exempt path is handed to the next handler exactly
\* once, unchanged, with nothing logged and no error, whatever its headers
\* and its peer.
C5_ExemptBypass ==
    (Done("strict") /\ Exempt(request)) =>
        /\ log = <<>>
        /\ handler_calls = 1
        /\ handed = NotHanded
        /\ response = HandlerResult

\* C6: relaxed mode hands every request with at most one X-Forwarded-For
\* line (all of whose tokens are addresses, and with no repeated forwarding
\* header) to the next handler; the remote override is the first chain entry
\* when the chain is non-empty and absent when there is no such header.
C6_RelaxedResolution ==
    (Done("relaxed") /\ ChainDefined(request)
        /\ Len(Lines(request, X_FORWARDED_PROTO)) <= 1
        /\ Len(Lines(request, X_FORWARDED_HOST)) <= 1) =>
        /\ handler_calls = 1
        /\ response = HandlerResult
        /\ Chain(request) # <<>> =>
               /\ "remote" \in handed.keys
               /\ handed.remote = str(Chain(request)[1])
        /\ Lines(request, X_FORWARDED_FOR) = <<>> =>
               "remote" \notin handed.keys

\* the extraction of one of X-Forwarded-Proto and X-Forwarded-Host is as
\* specified: absent gives no value and no error, one line gives its value,
\* TooManyHeaders naming the header exactly when it occurs more than once
ExtractionAsSpecified(name) ==
    LET lines == Lines(request, name) IN
    /\ Len(lines) = 0 =>
           /\ result.kind = "return"
           /\ result.list = <<>>
           /\ result.str = <<>>
    /\ Len(lines) = 1 =>
           /\ result.kind = "return"
           /\ result.list = lines \/ result.str = lines[1]
    /\ result = Raise("TooManyHeaders", name) <=> Len(lines) > 1

\* C7: for X-Forwarded-Proto and X-Forwarded-Host alike, an absent header
\* yields no value and no error, exactly one line of any length is accepted
\* and yields its value, and TooManyHeaders naming the header is raised if
\* and only if the header occurs more than once.
C7_ProtoHostExtraction ==
    /\ Done("get_forwarded_proto") => ExtractionAsSpecified(X_FORWARDED_PROTO)
    /\ Done("get_forwarded_host") => ExtractionAsSpecified(X_FORWARDED_HOST)

\* C8: in strict mode a non-exempt request that is not to be trusted never
\* reaches the clone step: no request value carrying a remote, scheme or
\* host override is built for it or handed downstream.
C8_TrustGate ==
    (Done("strict") /\ ~Exempt(request) /\ ~ShouldTrust(request)) =>
        /\ ~handed.cloned
        /\ handed.keys = {}

\* an untrusted peer sent forwarded proto and host on a checked path, strict
\* mode has dealt with the request, and nothing was handed downstream
C8_Witness ==
    /\ Done("strict")
    /\ ~Exempt(request)
    /\ ~PeerTrusted(request)
    /\ Len(Chain(request)) >= num_proxies
    /\ ChainDefined(request)
    /\ Present(request.headers, X_FORWARDED_PROTO)
    /\ Present(request.headers, X_FORWARDED_HOST)
    /\ handed = NotHanded

\* C9: a request whose single X-Forwarded-For value holds a token that is
\* not an IP address is answered with the same 400 as the other failures;
\* the next handler is not invoked and no other fault leaves the middleware.
C9_ParseFailureRejected ==
    (Resolving /\ BadToken(request)) =>
        /\ response = BadRequest
        /\ handler_calls = 0

\* C10: handling a request ends either with the next handler invoked exactly
\* once, its result returned and nothing logged, or with exactly one error
\* record logged, a 400 answer and the next handler never invoked.
C10_ExactlyOneOutcome ==
    (Done("relaxed") \/ Done("strict")) =>
        \/ /\ handler_calls = 1
           /\ response = HandlerResult
           /\ log = <<>>
        \/ /\ handler_calls = 0
           /\ response = BadRequest
           /\ Len(log) = 1

====
